---- MODULE Spec2Model ----
(***************************************************************************)
(* Debugging helpers for the custom types of OpenSPH (src/helpers.py and   *)
(* the earlier variant src/qthelpers/helpers.py).  Each qdump callback is  *)
(* modelled by the sequence of host calls it makes on the dumper d and on  *)
(* the inspected value, in the order Python evaluates them.                *)
(***************************************************************************)
EXTENDS Integers, Sequences, FiniteSets, TLC

VARIABLES value, expanded, calls, cb, seen

vars == <<value, expanded, calls, cb, seen>>

(* ------------------------------ bounds -------------------------------- *)

\* largest actSize of an inspected Array / ArrayView
MaxSize == 3
\* number of distinct addresses a value (or a data pointer) may have
MaxAddr == 2

(* --------------------------- inspected values -------------------------- *)

Addrs == {4096 + 64 * k : k \in 0 .. (MaxAddr - 1)}

TArgs == {"float", "double"}

SizeOf(t) == IF t = "float" THEN 4 ELSE 8

NoValue ==
  [tname |-> "", targ |-> "", addr |-> 0, ptr |-> 0, used |-> 0,
   actSize |-> 0, maxSize |-> 0, data |-> 0, diag |-> 0, off |-> 0]

SimdValues ==
  {[NoValue EXCEPT !.tname = n, !.addr = a] :
     n \in {"__m128", "__m128d"}, a \in Addrs}

PtrValues ==
  {[NoValue EXCEPT !.tname = n, !.targ = t, !.addr = 4096, !.ptr = p] :
     n \in {"Sph::AutoPtr", "Sph::RawPtr", "Sph::SharedPtr"},
     t \in TArgs, p \in {0} \cup Addrs}

OptionalValues ==
  {[NoValue EXCEPT !.tname = "Sph::Optional", !.targ = t, !.addr = a, !.used = u] :
     t \in TArgs, a \in Addrs, u \in {0, 1}}

ArrayValues ==
  {[NoValue EXCEPT !.tname = n, !.targ = t, !.addr = 4096, !.actSize = s,
                   !.maxSize = MaxSize, !.data = p] :
     n \in {"Sph::Array", "Sph::ArrayView"}, t \in TArgs,
     s \in (-1) .. MaxSize, p \in Addrs}

VectorValues ==
  {[NoValue EXCEPT !.tname = "Sph::BasicVector", !.targ = t, !.addr = a] :
     t \in TArgs, a \in Addrs}

TensorValues ==
  {[NoValue EXCEPT !.tname = "Sph::TracelessTensor", !.addr = a] : a \in Addrs}
  \cup
  {[NoValue EXCEPT !.tname = "Sph::SymmetricTensor", !.addr = a,
                   !.diag = a + d, !.off = a + d + o] :
     a \in Addrs, d \in {0, 32}, o \in {24, 32}}

Values ==
  SimdValues \cup PtrValues \cup OptionalValues \cup ArrayValues
  \cup VectorValues \cup TensorValues

(* ------------------------------ host calls ----------------------------- *)

\* one call on the host: the dumper d, the value, or one of its fields
Call(op, label, n, addr, type) ==
  [op |-> op, label |-> label, n |-> n, addr |-> addr, type |-> type]

putEmptyValue == Call("putEmptyValue", "", 0, 0, "")
putNumChild(k) == Call("putNumChild", "", k, 0, "")
putValue(s) == Call("putValue", s, 0, 0, "")
putItem(a, t) == Call("putItem", "", 0, a, t)
putSubItem_i(i, a, t) == Call("putSubItem", "", i, a, t)
putSubItem_s(name, a, t) == Call("putSubItem", name, 0, a, t)
\* via is "address()" when the base is the result of value.address(),
\* "address" when it is the attribute value.address itself
putArrayData(via, a, n, t) == Call("putArrayData", via, n, a, t)
isExpanded(e) == Call("isExpanded", IF e THEN "True" ELSE "False", 0, 0, "")
lookupType(t) == Call("lookupType", t, 0, 0, t)
templateArgument(v, i) == Call("templateArgument", v.tname, i, 0, v.targ)
createValue(a, t) == Call("createValue", "", 0, a, t)
address(a) == Call("address()", "", 0, a, "")
address_attr(a) == Call("address", "", 0, a, "")
field(name, x) == Call("field", name, x, 0, "")
integer(name, x) == Call("integer", name, x, 0, "")
type_attr(name, t) == Call("type", name, 0, 0, t)
dereference(a, t) == Call("dereference", "", 0, a, t)
cast(a, t) == Call("cast", "", 0, a, t)
Children(n, t) == Call("Children", "", n, 0, t)
Children_exit == Call("Children.__exit__", "", 0, 0, "")

\* "(%s values)" % (actsize)
Format_values(actsize) == "(" \o ToString(actsize) \o " values)"

Max0(n) == IF n < 0 THEN 0 ELSE n

\* p + 1 on a pointer to t
PtrAdd(p, n, t) == p + n * SizeOf(t)

(* ------------------------- src/helpers.py ------------------------------ *)

qdump____m128(d, v) ==
  <<putEmptyValue, putNumChild(1), isExpanded(d)>>
  \o (IF d THEN <<address(v.addr), lookupType("float"),
                  putArrayData("address()", v.addr, 4, "float")>>
           ELSE <<>>)

qdump____m128d(d, v) ==
  <<putEmptyValue, putNumChild(1), isExpanded(d)>>
  \o (IF d THEN <<address(v.addr), lookupType("double"),
                  putArrayData("address()", v.addr, 2, "double")>>
           ELSE <<>>)

qdump__Sph__AutoPtr(d, v) ==
  <<field("ptr", v.ptr), integer("ptr", v.ptr)>>
  \o (IF v.ptr = 0 THEN <<putValue("nullptr")>>
                   ELSE <<dereference(v.ptr, v.targ), putItem(v.ptr, v.targ)>>)

\* mutant: the null test is dropped
qdump__Sph__RawPtr_unchecked(d, v) ==
  <<field("ptr", v.ptr), integer("ptr", v.ptr),
    dereference(v.ptr, v.targ), putItem(v.ptr, v.targ)>>

qdump__Sph__RawPtr(d, v) ==
  <<field("ptr", v.ptr), integer("ptr", v.ptr)>>
  \o (IF v.ptr = 0 THEN <<putValue("nullptr")>>
                   ELSE <<dereference(v.ptr, v.targ), putItem(v.ptr, v.targ)>>)

qdump__Sph__SharedPtr(d, v) ==
  <<field("ptr", v.ptr), integer("ptr", v.ptr)>>
  \o (IF v.ptr = 0 THEN <<putValue("nullptr")>>
                   ELSE <<dereference(v.ptr, v.targ), putItem(v.ptr, v.targ)>>)

\* mutant: the template argument is resolved and the value created before
\* the test of used
qdump__Sph__Optional_eager(d, v) ==
  <<field("used", v.used), integer("used", v.used),
    type_attr("value", v.tname), templateArgument(v, 0),
    address(v.addr), createValue(v.addr, v.targ)>>
  \o (IF v.used = 0 THEN <<putValue("NOTHING")>>
                    ELSE <<putItem(v.addr, v.targ)>>)

qdump__Sph__Optional(d, v) ==
  <<field("used", v.used), integer("used", v.used)>>
  \o (IF v.used = 0
        THEN <<putValue("NOTHING")>>
        ELSE <<type_attr("value", v.tname), templateArgument(v, 0),
               address(v.addr), createValue(v.addr, v.targ),
               putItem(v.addr, v.targ)>>)

RECURSIVE Array_loop_inclusive(_, _, _, _)
\* mutant: range(0, actsize + 1)
Array_loop_inclusive(i, actsize, p, t) ==
  IF i > actsize
    THEN <<>>
    ELSE <<dereference(p, t), cast(p, t), putSubItem_i(i, p, t)>>
         \o Array_loop_inclusive(i + 1, actsize, PtrAdd(p, 1, t), t)

RECURSIVE Array_loop(_, _, _, _)
\* for i in range(0, actsize): putSubItem(i, p.dereference().cast(T)); p = p + 1
Array_loop(i, actsize, p, t) ==
  IF i >= actsize
    THEN <<>>
    ELSE <<dereference(p, t), cast(p, t), putSubItem_i(i, p, t)>>
         \o Array_loop(i + 1, actsize, PtrAdd(p, 1, t), t)

\* mutant: the children are put without asking d.isExpanded()
qdump__Sph__Array_eager(d, v) ==
  <<field("actSize", v.actSize), integer("actSize", v.actSize),
    putNumChild(v.actSize), field("data", v.data),
    putValue(Format_values(v.actSize)), type_attr("data", v.targ \o "*"),
    type_attr("value", v.tname), templateArgument(v, 0)>>
  \o <<Children(v.actSize, v.targ \o "*")>>
  \o Array_loop(0, v.actSize, v.data, v.targ)
  \o <<Children_exit>>

qdump__Sph__Array(d, v) ==
  <<field("actSize", v.actSize), integer("actSize", v.actSize),
    putNumChild(v.actSize), field("data", v.data),
    putValue(Format_values(v.actSize)), type_attr("data", v.targ \o "*"),
    type_attr("value", v.tname), templateArgument(v, 0), isExpanded(d)>>
  \o (IF d THEN <<Children(v.actSize, v.targ \o "*")>>
                \o Array_loop(0, v.actSize, v.data, v.targ)
                \o <<Children_exit>>
           ELSE <<>>)

qdump__Sph__ArrayView(d, v) ==
  <<field("actSize", v.actSize), integer("actSize", v.actSize),
    putNumChild(v.actSize), field("data", v.data),
    putValue(Format_values(v.actSize)), type_attr("data", v.targ \o "*"),
    type_attr("value", v.tname), templateArgument(v, 0), isExpanded(d)>>
  \o (IF d THEN <<Children(v.actSize, v.targ \o "*")>>
                \o Array_loop(0, v.actSize, v.data, v.targ)
                \o <<Children_exit>>
           ELSE <<>>)

\* siz = 8 # have to be changed to 4 for floats!
siz == 8

\* mutant: siz follows the size of the template argument
qdump__Sph__BasicVector_sized(d, v) ==
  <<putNumChild(4), type_attr("value", v.tname), templateArgument(v, 0),
    address(v.addr), createValue(v.addr, v.targ),
    address(v.addr), createValue(v.addr + SizeOf(v.targ), v.targ),
    address(v.addr), createValue(v.addr + 2 * SizeOf(v.targ), v.targ),
    address(v.addr), createValue(v.addr + 3 * SizeOf(v.targ), v.targ),
    isExpanded(d)>>
  \o (IF d THEN <<Children(4, v.targ),
                  putSubItem_s("x", v.addr, v.targ),
                  putSubItem_s("y", v.addr + SizeOf(v.targ), v.targ),
                  putSubItem_s("z", v.addr + 2 * SizeOf(v.targ), v.targ),
                  putSubItem_s("h", v.addr + 3 * SizeOf(v.targ), v.targ),
                  Children_exit>>
           ELSE <<>>)

qdump__Sph__BasicVector(d, v) ==
  <<putNumChild(4), type_attr("value", v.tname), templateArgument(v, 0),
    address(v.addr), createValue(v.addr, v.targ),
    address(v.addr), createValue(v.addr + siz, v.targ),
    address(v.addr), createValue(v.addr + 2 * siz, v.targ),
    address(v.addr), createValue(v.addr + 3 * siz, v.targ),
    isExpanded(d)>>
  \o (IF d THEN <<Children(4, v.targ),
                  putSubItem_s("x", v.addr, v.targ),
                  putSubItem_s("y", v.addr + siz, v.targ),
                  putSubItem_s("z", v.addr + 2 * siz, v.targ),
                  putSubItem_s("h", v.addr + 3 * siz, v.targ),
                  Children_exit>>
           ELSE <<>>)

\* mutant: the child count of SymmetricTensor is declared
qdump__Sph__TracelessTensor_six(d, v) ==
  <<putNumChild(6), lookupType("double"),
    address(v.addr), createValue(v.addr, "double"),
    address(v.addr), createValue(v.addr + siz, "double"),
    address(v.addr), createValue(v.addr + 2 * siz, "double"),
    address(v.addr), createValue(v.addr + 3 * siz, "double"),
    address(v.addr), createValue(v.addr + 4 * siz, "double"),
    isExpanded(d)>>
  \o (IF d THEN <<Children(5, "double"),
                  putSubItem_s("sxx", v.addr, "double"),
                  putSubItem_s("syy", v.addr + siz, "double"),
                  putSubItem_s("sxy", v.addr + 2 * siz, "double"),
                  putSubItem_s("sxz", v.addr + 3 * siz, "double"),
                  putSubItem_s("syz", v.addr + 4 * siz, "double"),
                  Children_exit>>
           ELSE <<>>)

qdump__Sph__TracelessTensor(d, v) ==
  <<putNumChild(5), lookupType("double"),
    address(v.addr), createValue(v.addr, "double"),
    address(v.addr), createValue(v.addr + siz, "double"),
    address(v.addr), createValue(v.addr + 2 * siz, "double"),
    address(v.addr), createValue(v.addr + 3 * siz, "double"),
    address(v.addr), createValue(v.addr + 4 * siz, "double"),
    isExpanded(d)>>
  \o (IF d THEN <<Children(5, "double"),
                  putSubItem_s("sxx", v.addr, "double"),
                  putSubItem_s("syy", v.addr + siz, "double"),
                  putSubItem_s("sxy", v.addr + 2 * siz, "double"),
                  putSubItem_s("sxz", v.addr + 3 * siz, "double"),
                  putSubItem_s("syz", v.addr + 4 * siz, "double"),
                  Children_exit>>
           ELSE <<>>)

\* mutant: the off-diagonal components are read behind the diagonal ones,
\* from the address of diag
qdump__Sph__SymmetricTensor_contiguous(d, v) ==
  <<putNumChild(6), lookupType("double"),
    field("diag", v.diag), field("off", v.off),
    address(v.diag), createValue(v.diag, "double"),
    address(v.diag), createValue(v.diag + siz, "double"),
    address(v.diag), createValue(v.diag + 2 * siz, "double"),
    address(v.diag), createValue(v.diag + 3 * siz, "double"),
    address(v.diag), createValue(v.diag + 4 * siz, "double"),
    address(v.diag), createValue(v.diag + 5 * siz, "double"),
    isExpanded(d)>>
  \o (IF d THEN <<Children(6, "double"),
                  putSubItem_s("sxx", v.diag, "double"),
                  putSubItem_s("syy", v.diag + siz, "double"),
                  putSubItem_s("szz", v.diag + 2 * siz, "double"),
                  putSubItem_s("sxy", v.diag + 3 * siz, "double"),
                  putSubItem_s("sxz", v.diag + 4 * siz, "double"),
                  putSubItem_s("syz", v.diag + 5 * siz, "double"),
                  Children_exit>>
           ELSE <<>>)

qdump__Sph__SymmetricTensor(d, v) ==
  <<putNumChild(6), lookupType("double"),
    field("diag", v.diag), field("off", v.off),
    address(v.diag), createValue(v.diag, "double"),
    address(v.diag), createValue(v.diag + siz, "double"),
    address(v.diag), createValue(v.diag + 2 * siz, "double"),
    address(v.off), createValue(v.off, "double"),
    address(v.off), createValue(v.off + siz, "double"),
    address(v.off), createValue(v.off + 2 * siz, "double"),
    isExpanded(d)>>
  \o (IF d THEN <<Children(6, "double"),
                  putSubItem_s("sxx", v.diag, "double"),
                  putSubItem_s("syy", v.diag + siz, "double"),
                  putSubItem_s("szz", v.diag + 2 * siz, "double"),
                  putSubItem_s("sxy", v.off, "double"),
                  putSubItem_s("sxz", v.off + siz, "double"),
                  putSubItem_s("syz", v.off + 2 * siz, "double"),
                  Children_exit>>
           ELSE <<>>)

(* --------------------- src/qthelpers/helpers.py ------------------------ *)

qthelpers_qdump____m128(d, v) ==
  <<putEmptyValue, putNumChild(1), isExpanded(d)>>
  \o (IF d THEN <<address_attr(v.addr), lookupType("float"),
                  putArrayData("address", v.addr, 4, "float")>>
           ELSE <<>>)

qthelpers_qdump____m128d(d, v) ==
  <<putEmptyValue, putNumChild(1), isExpanded(d)>>
  \o (IF d THEN <<address_attr(v.addr), lookupType("double"),
                  putArrayData("address", v.addr, 2, "double")>>
           ELSE <<>>)

RECURSIVE qthelpers_Array_loop_stuck(_, _, _, _)
\* mutant: p is not advanced
qthelpers_Array_loop_stuck(i, actsize, p, t) ==
  IF i >= actsize
    THEN <<>>
    ELSE <<dereference(p, t), putSubItem_i(i, p, t)>>
         \o qthelpers_Array_loop_stuck(i + 1, actsize, p, t)

RECURSIVE qthelpers_Array_loop(_, _, _, _)
\* for i in range(0, actsize): putSubItem(i, p.dereference()); p = p + 1
qthelpers_Array_loop(i, actsize, p, t) ==
  IF i >= actsize
    THEN <<>>
    ELSE <<dereference(p, t), putSubItem_i(i, p, t)>>
         \o qthelpers_Array_loop(i + 1, actsize, PtrAdd(p, 1, t), t)

qthelpers_qdump__Sph__Array(d, v) ==
  <<field("actSize", v.actSize), integer("actSize", v.actSize),
    field("maxSize", v.maxSize), integer("maxSize", v.maxSize),
    putNumChild(v.actSize), field("data", v.data),
    type_attr("data", v.targ \o "*"), isExpanded(d)>>
  \o (IF d THEN <<Children(v.actSize, v.targ \o "*")>>
                \o qthelpers_Array_loop(0, v.actSize, v.data, v.targ)
                \o <<Children_exit>>
           ELSE <<>>)

(* ------------------------------ the host ------------------------------- *)

Init ==
  /\ value \in Values
  /\ expanded = FALSE
  /\ calls = <<>>
  /\ cb = ""
  /\ seen = {}

\* the debuggee runs on, or the user selects another variable
Inspect ==
  /\ \E v \in Values : value' = v
  /\ expanded' = FALSE
  /\ calls' = <<>>
  /\ cb' = ""
  /\ seen' = {}

\* the user expands or collapses the item: d.isExpanded() answers differently
Toggle ==
  /\ expanded' = ~expanded
  /\ calls' = <<>>
  /\ cb' = ""
  /\ seen' = {}
  /\ UNCHANGED value

\* the host calls the callback named after the type of the value; the
\* callback reads the value and the dumper and writes neither
Invoke(tname, name, trace) ==
  /\ value.tname = tname
  /\ calls' = trace
  /\ cb' = name
  /\ seen' = seen \cup {[cb |-> name, value |-> value, expanded |-> expanded,
                          calls |-> trace]}
  /\ UNCHANGED <<value, expanded>>

Do_qdump____m128 ==
  Invoke("__m128", "helpers.qdump____m128", qdump____m128(expanded, value))

Do_qdump____m128d ==
  Invoke("__m128d", "helpers.qdump____m128d", qdump____m128d(expanded, value))

Do_qdump__Sph__AutoPtr ==
  Invoke("Sph::AutoPtr", "helpers.qdump__Sph__AutoPtr",
         qdump__Sph__AutoPtr(expanded, value))

Do_qdump__Sph__RawPtr ==
  Invoke("Sph::RawPtr", "helpers.qdump__Sph__RawPtr",
         qdump__Sph__RawPtr(expanded, value))

Do_qdump__Sph__SharedPtr ==
  Invoke("Sph::SharedPtr", "helpers.qdump__Sph__SharedPtr",
         qdump__Sph__SharedPtr(expanded, value))

Do_qdump__Sph__Optional ==
  Invoke("Sph::Optional", "helpers.qdump__Sph__Optional",
         qdump__Sph__Optional(expanded, value))

\* mutant: the loop advances the data field of the value itself
Do_qdump__Sph__Array_inplace ==
  /\ value.tname = "Sph::Array"
  /\ calls' = qdump__Sph__Array(expanded, value)
  /\ cb' = "helpers.qdump__Sph__Array"
  /\ seen' = seen \cup {[cb |-> "helpers.qdump__Sph__Array", value |-> value,
                          expanded |-> expanded,
                          calls |-> qdump__Sph__Array(expanded, value)]}
  /\ value' = [value EXCEPT
                 !.data = IF expanded
                            THEN PtrAdd(@, Max0(value.actSize), value.targ)
                            ELSE @]
  /\ UNCHANGED expanded

Do_qdump__Sph__Array ==
  Invoke("Sph::Array", "helpers.qdump__Sph__Array",
         qdump__Sph__Array(expanded, value))

Do_qdump__Sph__ArrayView ==
  Invoke("Sph::ArrayView", "helpers.qdump__Sph__ArrayView",
         qdump__Sph__ArrayView(expanded, value))

Do_qdump__Sph__BasicVector ==
  Invoke("Sph::BasicVector", "helpers.qdump__Sph__BasicVector",
         qdump__Sph__BasicVector(expanded, value))

Do_qdump__Sph__TracelessTensor ==
  Invoke("Sph::TracelessTensor", "helpers.qdump__Sph__TracelessTensor",
         qdump__Sph__TracelessTensor(expanded, value))

Do_qdump__Sph__SymmetricTensor ==
  Invoke("Sph::SymmetricTensor", "helpers.qdump__Sph__SymmetricTensor",
         qdump__Sph__SymmetricTensor(expanded, value))

Do_qthelpers_qdump____m128 ==
  Invoke("__m128", "qthelpers.qdump____m128",
         qthelpers_qdump____m128(expanded, value))

Do_qthelpers_qdump____m128d ==
  Invoke("__m128d", "qthelpers.qdump____m128d",
         qthelpers_qdump____m128d(expanded, value))

Do_qthelpers_qdump__Sph__Array ==
  Invoke("Sph::Array", "qthelpers.qdump__Sph__Array",
         qthelpers_qdump__Sph__Array(expanded, value))

Next ==
  \/ Inspect
  \/ Toggle
  \/ Do_qdump____m128
  \/ Do_qdump____m128d
  \/ Do_qdump__Sph__AutoPtr
  \/ Do_qdump__Sph__RawPtr
  \/ Do_qdump__Sph__SharedPtr
  \/ Do_qdump__Sph__Optional
  \/ Do_qdump__Sph__Array
  \/ Do_qdump__Sph__ArrayView
  \/ Do_qdump__Sph__BasicVector
  \/ Do_qdump__Sph__TracelessTensor
  \/ Do_qdump__Sph__SymmetricTensor
  \/ Do_qthelpers_qdump____m128
  \/ Do_qthelpers_qdump____m128d
  \/ Do_qthelpers_qdump__Sph__Array

Spec == Init /\ [][Next]_vars

(* ------------------------- reading a trace ----------------------------- *)

Ops(s, op) == SelectSeq(s, LAMBDA c : c.op = op)

OpsIn(s, ops) == SelectSeq(s, LAMBDA c : c.op \in ops)

Without(s, ops) == SelectSeq(s, LAMBDA c : c.op \notin ops)

RECURSIVE SumN(_)
SumN(s) == IF s = <<>> THEN 0 ELSE Head(s).n + SumN(Tail(s))

\* the calls that emit a child
ChildOps == {"putSubItem", "putArrayData", "Children"}

\* the calls that set the summary of the item
SummaryOps == {"putValue", "putEmptyValue", "putItem"}

\* the children shown: sub-items put, plus elements passed to putArrayData
Emitted(s) == Len(Ops(s, "putSubItem")) + SumN(Ops(s, "putArrayData"))

Invoked == cb # ""

(* -------------------------------- C1 ----------------------------------- *)

\* C1: children are lazily expandable.  In every invocation of every
\* callback of both files, a child-emitting call (putSubItem, putArrayData,
\* Children) is made only after d.isExpanded() was asked and answered true
\* (the item being expanded); in an invocation where isExpanded() answered
\* false no child is emitted and the child count was declared with
\* putNumChild before the question.
C1_LazyChildren ==
  Invoked =>
    /\ \A i \in 1 .. Len(calls) :
         calls[i].op = "isExpanded" => calls[i] = isExpanded(expanded)
    /\ \A i \in 1 .. Len(calls) :
         calls[i].op \in ChildOps =>
           /\ expanded
           /\ \E j \in 1 .. (i - 1) : calls[j] = isExpanded(TRUE)
    /\ (\E j \in 1 .. Len(calls) : calls[j] = isExpanded(FALSE)) =>
         /\ OpsIn(calls, ChildOps) = <<>>
         /\ \E j, k \in 1 .. Len(calls) :
              j < k /\ calls[j].op = "putNumChild" /\ calls[k].op = "isExpanded"

C1_Witness ==
  /\ cb = "helpers.qdump__Sph__Array"
  /\ ~expanded
  /\ value.actSize >= 2
  /\ Ops(calls, "putNumChild") = <<putNumChild(value.actSize)>>
  /\ OpsIn(calls, ChildOps) = <<>>

(* -------------------------------- C2 ----------------------------------- *)

\* C2: every invocation of every callback, expanded or not, makes at least
\* one summary-setting call (putValue, putEmptyValue or putItem).
C2_SummaryAlways ==
  Invoked => OpsIn(calls, SummaryOps) # <<>>

(* -------------------------------- C3 ----------------------------------- *)

Digit == <<"0", "1", "2", "3", "4", "5", "6", "7", "8", "9">>

\* the text "(n values)" for -9 <= n <= 9
ValuesText(n) ==
  "(" \o (IF n < 0 THEN "-" \o Digit[1 - n] ELSE Digit[n + 1]) \o " values)"

\* the sub-items of n elements of type t stored from address a on
Elements(n, a, t) ==
  [i \in 1 .. Max0(n) |-> putSubItem_i(i - 1, a + (i - 1) * SizeOf(t), t)]

ArrayCbs == {"helpers.qdump__Sph__Array", "helpers.qdump__Sph__ArrayView"}

\* C3: Array and ArrayView of src/helpers.py declare putNumChild(actSize),
\* set the summary "(actSize values)" and, when expanded, emit exactly the
\* sub-items 0, 1, ..., actSize-1 in this order, sub-item i being the
\* element at data + i, inside one Children block that is closed; when not
\* expanded, or when actSize <= 0, no sub-item is emitted.
C3_LinearIteration ==
  cb \in ArrayCbs =>
    /\ Ops(calls, "putNumChild") = <<putNumChild(value.actSize)>>
    /\ Ops(calls, "putValue") = <<putValue(ValuesText(value.actSize))>>
    /\ Ops(calls, "putSubItem") =
         (IF expanded THEN Elements(value.actSize, value.data, value.targ)
                      ELSE <<>>)
    /\ value.actSize <= 0 => Ops(calls, "putSubItem") = <<>>
    /\ expanded =>
         /\ calls[Len(calls)] = Children_exit
         /\ Len(Ops(calls, "Children")) = 1

C3_Witness ==
  /\ cb = "helpers.qdump__Sph__ArrayView"
  /\ expanded
  /\ value.actSize = 3
  /\ value.targ = "float"
  /\ Len(Ops(calls, "putSubItem")) = 3
  /\ Ops(calls, "putSubItem")[3] = putSubItem_i(2, value.data + 8, "float")

(* -------------------------------- C4 ----------------------------------- *)

\* the calls of callback name on the inspected value, if it ran since the
\* value was selected
SeenCalls(name) == {r.calls : r \in {q \in seen : q.cb = name}}

\* what the developed variant adds: template argument 0 and the cast to it,
\* and the summary
Developed == {"templateArgument", "cast", "putValue"}

IsValueType(c) == c.op = "type" /\ c.label = "value"

IsMaxSize(c) == c.op \in {"field", "integer"} /\ c.label = "maxSize"

\* (index, element address) of the sub-items
IndexAddress(s) ==
  [i \in 1 .. Len(Ops(s, "putSubItem")) |->
     <<Ops(s, "putSubItem")[i].n, Ops(s, "putSubItem")[i].addr>>]

\* forget how the address of the value was obtained
AnyAddress(s) ==
  [i \in 1 .. Len(s) |->
     IF s[i].op \in {"address", "address()"}
       THEN [s[i] EXCEPT !.op = "address"]
       ELSE IF s[i].op = "putArrayData"
              THEN [s[i] EXCEPT !.label = "address"]
              ELSE s[i]]

\* C4 as stated: on the same Array value and expansion state the two files
\* declare the same child count and emit the same (index, element address)
\* sub-items, the __m128 and __m128d callbacks of both files make the same
\* host calls, and the only differences are the template argument, the cast
\* and the "(n values)" summary of the developed variant.
C4_SameVisualizer ==
  /\ \A o \in SeenCalls("qthelpers.qdump__Sph__Array"),
        n \in SeenCalls("helpers.qdump__Sph__Array") :
       /\ Ops(o, "putNumChild") = Ops(n, "putNumChild")
       /\ IndexAddress(o) = IndexAddress(n)
       /\ o = SelectSeq(Without(n, Developed), LAMBDA c : ~IsValueType(c))
  /\ \A o \in SeenCalls("qthelpers.qdump____m128"),
        n \in SeenCalls("helpers.qdump____m128") : o = n
  /\ \A o \in SeenCalls("qthelpers.qdump____m128d"),
        n \in SeenCalls("helpers.qdump____m128d") : o = n

\* C4, amended: on the same Array value and expansion state the two files
\* declare the same child count and emit the same (index, element address)
\* sub-items; the __m128 and __m128d callbacks of both files make the same
\* calls on the dumper, with the same element count and type, for the same
\* address.  The differences are: the developed variant resolves template
\* argument 0, casts each element to it and sets the "(n values)" summary;
\* it no longer reads maxSize; and it passes the result of value.address()
\* to putArrayData where the earlier variant passes the attribute
\* value.address.
C4_SameChildren ==
  /\ \A o \in SeenCalls("qthelpers.qdump__Sph__Array"),
        n \in SeenCalls("helpers.qdump__Sph__Array") :
       /\ Ops(o, "putNumChild") = Ops(n, "putNumChild")
       /\ IndexAddress(o) = IndexAddress(n)
       /\ SelectSeq(o, LAMBDA c : ~IsMaxSize(c))
            = SelectSeq(Without(n, Developed), LAMBDA c : ~IsValueType(c))
       /\ Ops(n, "field") = SelectSeq(Ops(o, "field"), LAMBDA c : ~IsMaxSize(c))
  /\ \A o \in SeenCalls("qthelpers.qdump____m128"),
        n \in SeenCalls("helpers.qdump____m128") :
       /\ AnyAddress(o) = AnyAddress(n)
       /\ Ops(o, "address()") = <<>> /\ Ops(n, "address") = <<>>
  /\ \A o \in SeenCalls("qthelpers.qdump____m128d"),
        n \in SeenCalls("helpers.qdump____m128d") :
       /\ AnyAddress(o) = AnyAddress(n)
       /\ Ops(o, "address()") = <<>> /\ Ops(n, "address") = <<>>

C4_Witness ==
  /\ expanded
  /\ value.actSize >= 2
  /\ SeenCalls("qthelpers.qdump__Sph__Array") # {}
  /\ SeenCalls("helpers.qdump__Sph__Array") # {}
  /\ \A o \in SeenCalls("qthelpers.qdump__Sph__Array") :
       Len(IndexAddress(o)) = value.actSize

(* -------------------------------- C5 ----------------------------------- *)

\* C5: BasicVector at address a declares 4 children and creates x, y, z, h
\* at a, a+8, a+16, a+24, each of the type of template argument 0, whatever
\* the size of that type; when expanded it emits exactly these four
\* sub-items, labelled and ordered x, y, z, h, and none otherwise.
C5_VectorComponents ==
  cb = "helpers.qdump__Sph__BasicVector" =>
    /\ Ops(calls, "putNumChild") = <<putNumChild(4)>>
    /\ Ops(calls, "templateArgument") = <<templateArgument(value, 0)>>
    /\ Ops(calls, "createValue") =
         <<createValue(value.addr, value.targ),
           createValue(value.addr + 8, value.targ),
           createValue(value.addr + 16, value.targ),
           createValue(value.addr + 24, value.targ)>>
    /\ Ops(calls, "putSubItem") =
         (IF expanded
            THEN <<putSubItem_s("x", value.addr, value.targ),
                   putSubItem_s("y", value.addr + 8, value.targ),
                   putSubItem_s("z", value.addr + 16, value.targ),
                   putSubItem_s("h", value.addr + 24, value.targ)>>
            ELSE <<>>)

C5_Witness ==
  /\ cb = "helpers.qdump__Sph__BasicVector"
  /\ expanded
  /\ value.targ = "float"
  /\ Ops(calls, "putSubItem")[4] = putSubItem_s("h", value.addr + 24, "float")

(* -------------------------------- C6 ----------------------------------- *)

C7_TemplateArgument ==
  /\ cb \in ArrayCbs =>
       /\ Ops(calls, "templateArgument") = <<templateArgument(value, 0)>>
       /\ Len(Ops(calls, "cast")) = Len(Ops(calls, "putSubItem"))
       /\ \A i \in 1 .. Len(calls) :
            calls[i].op = "putSubItem" =>
              /\ i > 2
              /\ calls[i].type = value.targ
              /\ calls[i - 1] = cast(calls[i].addr, value.targ)
              /\ calls[i - 2].op = "dereference"
              /\ calls[i - 2].addr = calls[i].addr
              /\ calls[i].addr = value.data + calls[i].n * SizeOf(value.targ)
  /\ (cb = "helpers.qdump__Sph__Optional" /\ value.used # 0) =>
       /\ Ops(calls, "templateArgument") = <<templateArgument(value, 0)>>
       /\ Ops(calls, "createValue") = <<createValue(value.addr, value.targ)>>
       /\ Ops(calls, "putItem") = <<putItem(value.addr, value.targ)>>
       /\ Ops(calls, "putValue") = <<>>
  /\ (cb = "helpers.qdump__Sph__Optional" /\ value.used = 0) =>
       /\ Ops(calls, "putValue") = <<putValue("NOTHING")>>
       /\ OpsIn(calls, {"templateArgument", "createValue", "putItem"}) = <<>>

C7_Witness ==
  /\ cb = "helpers.qdump__Sph__Optional"
  /\ value.used = 0
  /\ calls[Len(calls)] = putValue("NOTHING")
  /\ \E r \in seen : r.cb = cb

(* -------------------------------- C8 ----------------------------------- *)

\* C8: tensor components are read at fixed offsets as doubles.
\* TracelessTensor at address a declares 5 children and creates sxx, syy,
\* sxy, sxz, syz at a, a+8, a+16, a+24, a+32; SymmetricTensor declares 6
\* children and creates sxx, syy, szz at diag, diag+8, diag+16 and sxy, sxz,
\* syz at off, off+8, off+16.  When expanded the sub-items carry exactly
\* these labels and addresses in this order, and their number is the
\* number declared with putNumChild and passed to Children.
C8_TensorComponents ==
  /\ cb = "helpers.qdump__Sph__TracelessTensor" =>
       /\ Ops(calls, "putNumChild") = <<putNumChild(5)>>
       /\ Ops(calls, "createValue") =
            [i \in 1 .. 5 |-> createValue(value.addr + 8 * (i - 1), "double")]
       /\ Ops(calls, "putSubItem") =
            (IF expanded
               THEN [i \in 1 .. 5 |->
                       putSubItem_s(<<"sxx", "syy", "sxy", "sxz", "syz">>[i],
                                    value.addr + 8 * (i - 1), "double")]
               ELSE <<>>)
       /\ expanded => Ops(calls, "Children") = <<Children(5, "double")>>
  /\ cb = "helpers.qdump__Sph__SymmetricTensor" =>
       /\ Ops(calls, "putNumChild") = <<putNumChild(6)>>
       /\ Ops(calls, "createValue") =
            [i \in 1 .. 6 |->
               createValue(IF i <= 3 THEN value.diag + 8 * (i - 1)
                                     ELSE value.off + 8 * (i - 4), "double")]
       /\ Ops(calls, "putSubItem") =
            (IF expanded
               THEN [i \in 1 .. 6 |->
                       putSubItem_s(
                         <<"sxx", "syy", "szz", "sxy", "sxz", "syz">>[i],
                         IF i <= 3 THEN value.diag + 8 * (i - 1)
                                   ELSE value.off + 8 * (i - 4), "double")]
               ELSE <<>>)
       /\ expanded => Ops(calls, "Children") = <<Children(6, "double")>>

C8_Witness ==
  /\ cb = "helpers.qdump__Sph__SymmetricTensor"
  /\ expanded
  /\ value.off # value.diag + 24
  /\ Ops(calls, "putSubItem")[4] = putSubItem_s("sxy", value.off, "double")
  /\ Len(Ops(calls, "putSubItem")) = 6

(* -------------------------------- C9 ----------------------------------- *)

PtrCbs ==
  {"helpers.qdump__Sph__AutoPtr", "helpers.qdump__Sph__RawPtr",
   "helpers.qdump__Sph__SharedPtr"}

\* C9: pointer wrappers never dereference a null pointer.  AutoPtr, RawPtr
\* and SharedPtr with ptr = 0 set the value "nullptr" and make no
\* dereference and no putItem; with ptr # 0 they dereference ptr once, make
\* exactly one putItem of the pointee and never set a value.  The calls
\* depend on ptr and the pointee type alone, not on which of the three
\* wrappers is inspected.
C9_NullPointer ==
  cb \in PtrCbs =>
    /\ value.ptr = 0 =>
         /\ Ops(calls, "putValue") = <<putValue("nullptr")>>
         /\ OpsIn(calls, {"dereference", "putItem"}) = <<>>
    /\ value.ptr # 0 =>
         /\ Ops(calls, "dereference") = <<dereference(value.ptr, value.targ)>>
         /\ Ops(calls, "putItem") = <<putItem(value.ptr, value.targ)>>
         /\ Ops(calls, "putValue") = <<>>
    /\ \A i \in 1 .. Len(calls) :
         calls[i].op = "dereference" =>
           \E j \in 1 .. (i - 1) : calls[j].op = "integer" /\ calls[j].n # 0
    /\ calls = qdump__Sph__AutoPtr(expanded, value)
    /\ calls = qdump__Sph__RawPtr(expanded, value)
    /\ calls = qdump__Sph__SharedPtr(expanded, value)

C9_Witness ==
  /\ cb = "helpers.qdump__Sph__SharedPtr"
  /\ value.ptr = 0
  /\ calls[Len(calls)] = putValue("nullptr")

(* -------------------------------- C10 ---------------------------------- *)

ChildCbs ==
  {"helpers.qdump____m128", "helpers.qdump____m128d",
   "helpers.qdump__Sph__Array", "helpers.qdump__Sph__ArrayView",
   "helpers.qdump__Sph__BasicVector", "helpers.qdump__Sph__TracelessTensor",
   "helpers.qdump__Sph__SymmetricTensor", "qthelpers.qdump____m128",
   "qthelpers.qdump____m128d", "qthelpers.qdump__Sph__Array"}

SimdCbs ==
  {"helpers.qdump____m128", "helpers.qdump____m128d",
   "qthelpers.qdump____m128", "qthelpers.qdump____m128d"}

Declared(s) == Ops(s, "putNumChild")[1].n

\* C10 as stated: for every callback that declares putNumChild(k), the
\* number of child elements emitted when the item is expanded (sub-items
\* put, or elements passed to putArrayData) equals k.
C10_DeclaredMatches ==
  (cb \in ChildCbs /\ expanded) =>
    /\ Len(Ops(calls, "putNumChild")) = 1
    /\ Emitted(calls) = Declared(calls)

\* C10, amended: the Array, ArrayView, BasicVector, TracelessTensor and
\* SymmetricTensor callbacks declare putNumChild(k) once and, when
\* expanded, emit exactly k sub-items if k >= 0 (and none for a negative
\* actSize, which is declared as it is); the __m128 and __m128d callbacks
\* declare putNumChild(1) and pass 4 and 2 elements to putArrayData.
C10_DeclaredMatchesSubItems ==
  (cb \in ChildCbs /\ expanded) =>
    /\ Len(Ops(calls, "putNumChild")) = 1
    /\ cb \notin SimdCbs =>
         /\ Emitted(calls) = Max0(Declared(calls))
         /\ Ops(calls, "putArrayData") = <<>>
    /\ cb \in SimdCbs =>
         /\ Declared(calls) = 1
         /\ Ops(calls, "putSubItem") = <<>>
         /\ Emitted(calls) = (IF value.tname = "__m128" THEN 4 ELSE 2)

C10_Witness ==
  /\ cb = "helpers.qdump__Sph__TracelessTensor"
  /\ expanded
  /\ Declared(calls) = 5
  /\ Emitted(calls) = 5

====
